---- MODULE Spec2Model ----
(***************************************************************************)
(* Sentin-L: model of src/main.c.                                          *)
(*                                                                         *)
(* Arithmetic.  The program computes temperatures and vibrations in        *)
(* float/double.  The model keeps them exact, as integers counted in       *)
(* units of 1/Scale of a degree (or Hz), Scale = 2*RAND_MAX, so that every *)
(* value read_sensors can produce for a rand() result in 0..RAND_MAX is an *)
(* integer: 40.0 + t*3.0 + (r/RAND_MAX)*2.0 is Scale*40 + t*3*Scale + 4*r  *)
(* units.  RAND_MAX is the granularity of the noise, not the platform's    *)
(* 2^31-1.                                                                 *)
(*                                                                         *)
(* The console is the terminal's content since the last system("clear");   *)
(* each line is kept with the tick during which it was printed.            *)
(*                                                                         *)
(* A row of the log file is kept as its two %d columns (timestamp and      *)
(* status); the two %.2f columns are not kept.                             *)
(***************************************************************************)
EXTENDS Integers, Sequences, FiniteSets, TLC

VARIABLES pc, fp, time_step, current_data, prev_data, log, console, fopen_failures

vars == <<pc, fp, time_step, current_data, prev_data, log, console, fopen_failures>>

\* ---------------------------------------------------------------- bounds
\* rand() returns a value in 0..RAND_MAX
RAND_MAX == 1
\* number of fopen() calls the environment lets fail in one run
MaxFail == 1

Scale == 2 * RAND_MAX

\* ---------------------------------------------------------------- configuration
CRITICAL_TEMP == 100 * Scale
CRITICAL_VIBRATION == 50 * Scale

OK == 0
WARNING == 1
CRITICAL == 2

\* ---------------------------------------------------------------- data
SensorData(ts, temp, vib, st) ==
  [timestamp |-> ts, temperature |-> temp, vibration |-> vib, status |-> st]

\* SensorData prev_data = {0, 0.0, 0.0, 0}
Placeholder == SensorData(0, 0, 0, 0)

\* ---------------------------------------------------------------- module 1: sensors
\* mutant: the comparisons include the thresholds
ClassifyInclusive(temperature, vibration) ==
  IF temperature >= CRITICAL_TEMP \/ vibration >= CRITICAL_VIBRATION
    THEN CRITICAL
    ELSE IF temperature * 10 >= CRITICAL_TEMP * 8
      THEN WARNING
      ELSE OK

\* the status decision of read_sensors
Classify(temperature, vibration) ==
  IF temperature > CRITICAL_TEMP \/ vibration > CRITICAL_VIBRATION
    THEN CRITICAL
    ELSE IF temperature * 10 > CRITICAL_TEMP * 8
      THEN WARNING
      ELSE OK

\* mutant: the temperature rises by 2.0 per tick
read_sensors_Slow(step, r_temp, r_vib) ==
  LET temperature == 40 * Scale + (step * 2 * Scale) + 4 * r_temp
      vibration   == 10 * Scale + (step * 3 * RAND_MAX) + 2 * r_vib
  IN  SensorData(step, temperature, vibration, Classify(temperature, vibration))

\* mutant: the temperature noise spans 4.0
read_sensors_Noisy(step, r_temp, r_vib) ==
  LET temperature == 40 * Scale + (step * 3 * Scale) + 8 * r_temp
      vibration   == 10 * Scale + (step * 3 * RAND_MAX) + 2 * r_vib
  IN  SensorData(step, temperature, vibration, Classify(temperature, vibration))

\* r_temp, r_vib: the results of the two rand() calls
read_sensors(step, r_temp, r_vib) ==
  LET temperature == 40 * Scale + (step * 3 * Scale) + 4 * r_temp
      vibration   == 10 * Scale + (step * 3 * RAND_MAX) + 2 * r_vib
  IN  SensorData(step, temperature, vibration, Classify(temperature, vibration))

\* ---------------------------------------------------------------- module 2: database
HeaderLine == [kind |-> "header", timestamp |-> 0, status |-> 0]

\* fprintf(fp, "%d,%.2f,%.2f,%d\n", ...)
Row(data) == [kind |-> "row", timestamp |-> data.timestamp, status |-> data.status]

\* ---------------------------------------------------------------- console lines
Line(m, v) == [msg |-> m, val |-> v]

Stamp(tick, lines) ==
  [i \in 1..Len(lines) |-> [tick |-> tick, msg |-> lines[i].msg, val |-> lines[i].val]]

\* printf("%.0f", num/den), den > 0, num >= 0: round to nearest, ties to even
Round0(num, den) ==
  LET q == num \div den
      r == num % den
  IN  IF 2 * r < den THEN q
      ELSE IF 2 * r > den THEN q + 1
      ELSE IF q % 2 = 0 THEN q ELSE q + 1

\* ---------------------------------------------------------------- module 3: prediction
\* mutant: the alert is given for steps_to_failure <= 10
predict_failure_AtMost10(current, previous) ==
  LET temp_rate == current.temperature - previous.temperature
      temp_diff == CRITICAL_TEMP - current.temperature
      \* steps_to_failure = temp_diff / temp_rate, clamped at 0, kept as a fraction
      steps_num == IF temp_diff < 0 THEN 0 ELSE temp_diff
  IN  IF temp_rate <= 0
        THEN << Line("engine", 0), Line("stable", 0) >>
        ELSE IF steps_num <= 10 * temp_rate
          THEN << Line("engine", 0), Line("trend", temp_rate),
                  Line("alert", Round0(steps_num, temp_rate)), Line("action", 0) >>
          ELSE << Line("engine", 0), Line("trend", temp_rate),
                  Line("safe", Round0(steps_num, temp_rate)) >>

\* mutant: the alert is given for steps_to_failure < 1
predict_failure_Under1(current, previous) ==
  LET temp_rate == current.temperature - previous.temperature
      temp_diff == CRITICAL_TEMP - current.temperature
      \* steps_to_failure = temp_diff / temp_rate, clamped at 0, kept as a fraction
      steps_num == IF temp_diff < 0 THEN 0 ELSE temp_diff
  IN  IF temp_rate <= 0
        THEN << Line("engine", 0), Line("stable", 0) >>
        ELSE IF steps_num < 1 * temp_rate
          THEN << Line("engine", 0), Line("trend", temp_rate),
                  Line("alert", Round0(steps_num, temp_rate)), Line("action", 0) >>
          ELSE << Line("engine", 0), Line("trend", temp_rate),
                  Line("safe", Round0(steps_num, temp_rate)) >>

predict_failure(current, previous) ==
  LET temp_rate == current.temperature - previous.temperature
      temp_diff == CRITICAL_TEMP - current.temperature
      \* steps_to_failure = temp_diff / temp_rate, clamped at 0, kept as a fraction
      steps_num == IF temp_diff < 0 THEN 0 ELSE temp_diff
  IN  IF temp_rate <= 0
        THEN << Line("engine", 0), Line("stable", 0) >>
        ELSE IF steps_num < 10 * temp_rate
          THEN << Line("engine", 0), Line("trend", temp_rate),
                  Line("alert", Round0(steps_num, temp_rate)), Line("action", 0) >>
          ELSE << Line("engine", 0), Line("trend", temp_rate),
                  Line("safe", Round0(steps_num, temp_rate)) >>

\* ---------------------------------------------------------------- module 4: dashboard
\* the lines on the terminal after system("clear") and the printfs
print_dashboard(data) ==
  << Line("banner", 0), Line("temperature", data.temperature) >>
  \o << IF data.temperature < 60 * Scale THEN Line("bar_low", 0)
        ELSE IF data.temperature < 90 * Scale THEN Line("bar_mid", 0)
        ELSE Line("bar_high", 0) >>
  \o << Line("vibration", data.vibration) >>
  \o (IF data.status = 0 THEN << Line("status_ok", 0) >> ELSE << >>)
  \o (IF data.status = 1 THEN << Line("status_warning", 0) >> ELSE << >>)
  \o (IF data.status = 2 THEN << Line("status_critical", 0) >> ELSE << >>)

\* ---------------------------------------------------------------- main
\* what DATA_FILE may hold when the program starts: nothing, or an older session
PriorLogs == { << >>, << HeaderLine, Row(SensorData(1, 0, 0, OK)) >> }

Init ==
  /\ pc = "start"
  /\ fp = "unset"
  /\ time_step = 0
  /\ current_data = Placeholder   \* not initialised by the code, and not read before tick 1
  /\ prev_data = Placeholder
  /\ log \in PriorLogs
  /\ console = << >>
  /\ fopen_failures = 0

\* mutant: the file is opened with "a" and keeps what it held
StartupOkAppendMode ==
  /\ pc = "start"
  /\ fp' = "file"
  /\ log' = Append(log, HeaderLine)
  /\ console' = Stamp(0, << Line("boot", 0), Line("connect", 0) >>)
  /\ pc' = "acquire"
  /\ UNCHANGED <<time_step, current_data, prev_data, fopen_failures>>

\* fopen(DATA_FILE, "w") succeeds: the file is truncated and the header written
StartupOk ==
  /\ pc = "start"
  /\ fp' = "file"
  /\ log' = << HeaderLine >>
  /\ console' = Stamp(0, << Line("boot", 0), Line("connect", 0) >>)
  /\ pc' = "acquire"
  /\ UNCHANGED <<time_step, current_data, prev_data, fopen_failures>>

\* fopen(DATA_FILE, "w") fails: fprintf and fclose get a null FILE*, which is
\* undefined; the process is killed there
StartupCrash ==
  /\ pc = "start"
  /\ fopen_failures < MaxFail
  /\ fopen_failures' = fopen_failures + 1
  /\ fp' = "NULL"
  /\ pc' = "crashed"
  /\ UNCHANGED <<time_step, current_data, prev_data, log, console>>

\* ... or the two calls return without having written anything
StartupNoHeader ==
  /\ pc = "start"
  /\ fopen_failures < MaxFail
  /\ fopen_failures' = fopen_failures + 1
  /\ fp' = "NULL"
  /\ console' = Stamp(0, << Line("boot", 0), Line("connect", 0) >>)
  /\ pc' = "acquire"
  /\ UNCHANGED <<time_step, current_data, prev_data, log>>

\* time_step++; current_data = read_sensors(time_step);
Acquire ==
  /\ pc = "acquire"
  /\ time_step' = time_step + 1
  /\ \E r_temp \in 0..RAND_MAX, r_vib \in 0..RAND_MAX :
       current_data' = read_sensors(time_step + 1, r_temp, r_vib)
  /\ pc' = "log"
  /\ UNCHANGED <<fp, prev_data, log, console, fopen_failures>>

\* log_to_database(current_data), the file opened
LogAppend ==
  /\ pc = "log"
  /\ log' = Append(log, Row(current_data))
  /\ pc' = "render"
  /\ UNCHANGED <<fp, time_step, current_data, prev_data, console, fopen_failures>>

\* mutant: the failure to open ends the program
LogFailFatal ==
  /\ pc = "log"
  /\ fopen_failures < MaxFail
  /\ fopen_failures' = fopen_failures + 1
  /\ console' = console \o Stamp(time_step, << Line("db_error", 0) >>)
  /\ pc' = "halted"
  /\ UNCHANGED <<fp, time_step, current_data, prev_data, log>>

\* log_to_database(current_data), fopen returned NULL
LogFail ==
  /\ pc = "log"
  /\ fopen_failures < MaxFail
  /\ fopen_failures' = fopen_failures + 1
  /\ console' = console \o Stamp(time_step, << Line("db_error", 0) >>)
  /\ pc' = "render"
  /\ UNCHANGED <<fp, time_step, current_data, prev_data, log>>

\* print_dashboard(current_data)
Render ==
  /\ pc = "render"
  /\ console' = Stamp(time_step, print_dashboard(current_data))
  /\ pc' = "predict"
  /\ UNCHANGED <<fp, time_step, current_data, prev_data, log, fopen_failures>>

\* mutant: the predictor runs on every tick
PredictEveryTick ==
  /\ pc = "predict"
  /\ console' = console \o Stamp(time_step, predict_failure(current_data, prev_data))
  /\ pc' = "check"
  /\ UNCHANGED <<fp, time_step, current_data, prev_data, log, fopen_failures>>

\* if (time_step > 1) predict_failure(current_data, prev_data);
Predict ==
  /\ pc = "predict"
  /\ console' = IF time_step > 1
                  THEN console \o Stamp(time_step, predict_failure(current_data, prev_data))
                  ELSE console
  /\ pc' = "check"
  /\ UNCHANGED <<fp, time_step, current_data, prev_data, log, fopen_failures>>

\* mutant: the cutoff compares with >= 1
HaltOnWarning ==
  /\ pc = "check"
  /\ current_data.status >= 1
  /\ console' = console \o Stamp(time_step, << Line("critical_failure", 0), Line("halted", 0),
                                              Line("session_saved", 0) >>)
  /\ pc' = "halted"
  /\ UNCHANGED <<fp, time_step, current_data, prev_data, log, fopen_failures>>

\* if (current_data.status == 2) { ...; break; } and the lines after the loop
Halt ==
  /\ pc = "check"
  /\ current_data.status = 2
  /\ console' = console \o Stamp(time_step, << Line("critical_failure", 0), Line("halted", 0),
                                              Line("session_saved", 0) >>)
  /\ pc' = "halted"
  /\ UNCHANGED <<fp, time_step, current_data, prev_data, log, fopen_failures>>

\* mutant: prev_data is not updated
ContinueKeepsPrev ==
  /\ pc = "check"
  /\ current_data.status # 2
  /\ pc' = "acquire"
  /\ UNCHANGED <<fp, time_step, current_data, prev_data, log, console, fopen_failures>>

\* prev_data = current_data; sleep(1);
Continue ==
  /\ pc = "check"
  /\ current_data.status # 2
  /\ prev_data' = current_data
  /\ pc' = "acquire"
  /\ UNCHANGED <<fp, time_step, current_data, log, console, fopen_failures>>

Next ==
  \/ StartupOk
  \/ StartupCrash
  \/ StartupNoHeader
  \/ Acquire
  \/ LogAppend
  \/ LogFail
  \/ Render
  \/ Predict
  \/ Halt
  \/ Continue

Spec == Init /\ [][Next]_vars

\* ---------------------------------------------------------------- the pure functions on their own
\* Inputs around the thresholds, in whole degrees and one unit to either side.
TempInputs == { d * Scale + e : d \in {45, 50, 70, 75, 80, 85, 100}, e \in {-1, 0, 1} }
VibInputs == { 10 * Scale, 50 * Scale - 1, 50 * Scale, 50 * Scale + 1 }

\* a current and a previous reading with any of the inputs; the status of the
\* current one is still to be decided
FnInit ==
  /\ pc = "classify"
  /\ fp = "unset"
  /\ time_step = 2
  /\ \E t \in TempInputs, v \in VibInputs : current_data = SensorData(2, t, v, OK)
  /\ \E t \in TempInputs : prev_data = SensorData(1, t, 10 * Scale, Classify(t, 10 * Scale))
  /\ log = << >>
  /\ console = << >>
  /\ fopen_failures = 0

\* the status decision of read_sensors on the drawn temperature and vibration
ClassifyCall ==
  /\ pc = "classify"
  /\ current_data' = [current_data EXCEPT
                        !.status = Classify(current_data.temperature, current_data.vibration)]
  /\ pc' = "predict_call"
  /\ UNCHANGED <<fp, time_step, prev_data, log, console, fopen_failures>>

\* predict_failure(current_data, prev_data) on the drawn pair
PredictCall ==
  /\ pc = "predict_call"
  /\ console' = Stamp(time_step, predict_failure(current_data, prev_data))
  /\ pc' = "returned"
  /\ UNCHANGED <<fp, time_step, current_data, prev_data, log, fopen_failures>>

FnNext ==
  \/ ClassifyCall
  \/ PredictCall

FnSpec == FnInit /\ [][FnNext]_vars

\* ---------------------------------------------------------------- helpers for the properties
Msgs(tick) == { console[i].msg : i \in { j \in 1..Len(console) : console[j].tick = tick } }

Count(tick, m) ==
  Cardinality({ i \in 1..Len(console) : console[i].tick = tick /\ console[i].msg = m })

Val(tick, m) == { console[i].val : i \in { j \in 1..Len(console) :
                                            console[j].tick = tick /\ console[j].msg = m } }

InLoop == pc \in {"acquire", "log", "render", "predict", "check"}

\* ---------------------------------------------------------------- C1
\* C1: the loop halts on the first tick whose reading is CRITICAL and on no
\* earlier tick: the check step goes to HALTED exactly when the reading of the
\* tick is CRITICAL, every tick that was completed before had status OK or
\* WARNING, and in HALTED nothing changes any more.
C1_HaltsOnFirstCritical ==
  /\ [](/\ pc = "halted" => current_data.status = CRITICAL
        /\ pc = "acquire" => current_data.status \in {OK, WARNING}
        /\ prev_data.status \in {OK, WARNING})
  /\ [][pc = "check" => ((pc' = "halted") <=> (current_data.status = CRITICAL))]_vars
  /\ [][pc = "halted" => UNCHANGED vars]_vars

C1_Witness ==
  /\ pc = "halted"
  /\ time_step = 20
  /\ prev_data.status = WARNING
  /\ prev_data.timestamp = 19
\* ---------------------------------------------------------------- C2
\* ticks whose log_to_database call has returned
Logged == IF pc = "log" THEN time_step - 1 ELSE time_step

\* C2 as stated: once startup has run, the log is one header line followed by
\* one row per executed tick, in tick order 1, 2, ..., n, whether or not an
\* fopen failed (at startup or on a tick).
C2_LogAlwaysComplete ==
  pc # "start" =>
    /\ Len(log) = 1 + Logged
    /\ log[1] = HeaderLine
    /\ \A i \in 1..Logged : log[i + 1].kind = "row" /\ log[i + 1].timestamp = i

\* C2 amended: the log is what startup left (the single header line when the
\* file was opened, the file's earlier content when it was not) followed by one
\* row per tick whose append could open the file, in increasing tick order; the
\* number of rows is the number of ticks less the failed appends.
C2_LogHoldsTheTicksThatOpened ==
  pc # "start" =>
    \E base \in (IF fp = "NULL" THEN PriorLogs ELSE { << HeaderLine >> }) :
      LET n == Len(base)
          failedAppends == fopen_failures - (IF fp = "NULL" THEN 1 ELSE 0)
      IN  /\ Len(log) = n + Logged - failedAppends
          /\ SubSeq(log, 1, n) = base
          /\ \A i \in (n + 1)..Len(log) :
               log[i].kind = "row" /\ log[i].timestamp \in 1..Logged
          /\ \A i \in (n + 1)..(Len(log) - 1) : log[i].timestamp < log[i + 1].timestamp
          /\ failedAppends = 0 => \A i \in 1..Logged : log[n + i].timestamp = i

C2_Witness ==
  /\ pc = "halted"
  /\ fp = "file"
  /\ fopen_failures = 1
  /\ Len(log) = time_step
  /\ log[Len(log)].timestamp = time_step

\* ---------------------------------------------------------------- C3
\* the log step of the current tick has run and left no row of this tick
FailedTick ==
  /\ pc \in {"render", "predict", "check", "halted"}
  /\ \A i \in 1..Len(log) : ~(log[i].kind = "row" /\ log[i].timestamp = time_step)

\* C3: when log_to_database cannot open the file, the error is printed, the log
\* and the readings are left alone and the tick goes on to the dashboard; on
\* such a tick the dashboard of the reading is rendered, the predictor runs
\* exactly when tick > 1, the halt decision is taken on the status alone, and
\* the previous reading and the counter move on as on any other tick.
C3_LogFailureIsNotFatal ==
  /\ [][(pc = "log" /\ fopen_failures' # fopen_failures) =>
          /\ log' = log
          /\ console' = Append(console, [tick |-> time_step, msg |-> "db_error", val |-> 0])
          /\ pc' = "render"
          /\ UNCHANGED <<time_step, current_data, prev_data>>]_vars
  /\ []((FailedTick /\ pc \in {"predict", "check"}) =>
          /\ SubSeq(console, 1, Len(print_dashboard(current_data)))
               = Stamp(time_step, print_dashboard(current_data))
          /\ pc = "check" => Count(time_step, "engine") = (IF time_step > 1 THEN 1 ELSE 0))
  /\ [][(FailedTick /\ pc = "check") =>
          IF current_data.status = CRITICAL
            THEN pc' = "halted" /\ UNCHANGED <<time_step, current_data, prev_data>>
            ELSE pc' = "acquire" /\ prev_data' = current_data
                 /\ UNCHANGED <<time_step, current_data>>]_vars
  /\ [][pc = "acquire" => time_step' = time_step + 1 /\ pc' = "log"]_vars

C3_Witness ==
  /\ FailedTick
  /\ pc = "check"
  /\ time_step > 1
  /\ fopen_failures = 1
  /\ fp = "file"
  /\ Count(time_step, "engine") = 1

\* ---------------------------------------------------------------- C4
\* C4: the status is CRITICAL iff temperature > 100 or vibration > 50, else
\* WARNING iff temperature > 80, else OK; a value exactly at a threshold falls
\* in the lower tier.
C4_StatusFromThresholds ==
  pc \in {"predict_call", "returned"} =>
    LET t == current_data.temperature
        v == current_data.vibration
        s == current_data.status
    IN  /\ s = CRITICAL <=> (t > 100 * Scale \/ v > 50 * Scale)
        /\ s = WARNING <=> (t <= 100 * Scale /\ v <= 50 * Scale /\ t > 80 * Scale)
        /\ s = OK <=> (t <= 80 * Scale /\ v <= 50 * Scale)
        /\ (t = 100 * Scale /\ v <= 50 * Scale) => s = WARNING
        /\ (v = 50 * Scale /\ t <= 80 * Scale) => s = OK
        /\ (t = 80 * Scale /\ v <= 50 * Scale) => s = OK
        /\ (t = 85 * Scale /\ v = 10 * Scale) => s = WARNING
        /\ (t = 50 * Scale) => (s = OK <=> v <= 50 * Scale)

C4_Witness ==
  /\ pc = "returned"
  /\ current_data.temperature = 100 * Scale
  /\ current_data.vibration = 50 * Scale
  /\ current_data.status = WARNING

\* ---------------------------------------------------------------- C5
\* C5: with rate = current - previous temperature, rate <= 0 prints the stable
\* message and no number; otherwise the urgent alert is printed iff
\* max(0, (100 - current) / rate) < 10 and the safe message otherwise.
C5_PredictorRule ==
  pc = "returned" =>
    LET rate == current_data.temperature - prev_data.temperature
        diff == 100 * Scale - current_data.temperature
        said == [i \in 1..Len(console) |-> console[i].msg]
    IN  /\ rate <= 0 => said = << "engine", "stable" >>
        /\ (rate > 0 /\ (diff <= 0 \/ diff < 10 * rate)) =>
             /\ said = << "engine", "trend", "alert", "action" >>
             /\ Val(time_step, "trend") = { rate }
        /\ (rate > 0 /\ diff > 0 /\ diff >= 10 * rate) =>
             /\ said = << "engine", "trend", "safe" >>
             /\ Val(time_step, "trend") = { rate }
        /\ (prev_data.temperature = 70 * Scale /\ current_data.temperature = 75 * Scale) =>
             Val(time_step, "trend") = { 5 * Scale } /\ Val(time_step, "alert") = { 5 }
        /\ (prev_data.temperature = 45 * Scale /\ current_data.temperature = 50 * Scale) =>
             Val(time_step, "safe") = { 10 }

C5_Witness ==
  /\ pc = "returned"
  /\ prev_data.temperature = 70 * Scale
  /\ current_data.temperature = 75 * Scale
  /\ "alert" \in Msgs(time_step)

\* ---------------------------------------------------------------- C6
\* C6: when the reading of a tick is CRITICAL (the tick on which the loop
\* halts), the terminal still shows, until that tick's dashboard clears it, an
\* urgent alert that the predictor printed on an earlier tick.
C6_AlertBeforeHalt ==
  (pc \in {"log", "render"} /\ current_data.status = CRITICAL) =>
    \E i \in 1..Len(console) :
      /\ console[i].msg = "alert"
      /\ console[i].tick < time_step
      /\ console[i].tick > 1

C6_Witness ==
  /\ pc = "render"
  /\ current_data.status = CRITICAL
  /\ time_step = 20
  /\ "alert" \in Msgs(19)

\* ---------------------------------------------------------------- C7
\* C7: a tick runs acquire, log, render, predict, halt check in that order; the
\* predictor's output appears exactly once on every tick > 1 and never on tick
\* 1, and HALTED is entered from the halt check only, after the predictor ran
\* and the reading was handed to the log.
C7_StepOrder ==
  /\ [][pc = "acquire" => (pc' = "log" /\ UNCHANGED <<log, console>>)]_vars
  /\ [][pc = "log" =>
          /\ pc' = "render"
          /\ \/ log' = Append(log, Row(current_data)) /\ console' = console
             \/ log' = log /\ Len(console') = Len(console) + 1]_vars
  /\ [][pc = "render" =>
          (pc' = "predict" /\ log' = log
           /\ console' = Stamp(time_step, print_dashboard(current_data)))]_vars
  /\ [][pc = "predict" =>
          (pc' = "check" /\ log' = log /\ SubSeq(console', 1, Len(console)) = console)]_vars
  /\ [][pc = "check" => (pc' \in {"acquire", "halted"} /\ log' = log)]_vars
  /\ [][pc' = "halted" => pc \in {"check", "halted"}]_vars
  /\ []((pc \in {"log", "render", "predict"}) => Count(time_step, "engine") = 0)
  /\ []((pc \in {"check", "halted"}) =>
          Count(time_step, "engine") = (IF time_step > 1 THEN 1 ELSE 0))
  /\ []((pc = "halted" /\ fopen_failures = 0) => log[Len(log)] = Row(current_data))

C7_Witness ==
  /\ pc = "halted"
  /\ fopen_failures = 0
  /\ Count(time_step, "engine") = 1
  /\ log[Len(log)] = Row(current_data)
  /\ console[Len(console)].msg = "session_saved"

\* ---------------------------------------------------------------- C8
\* C8: the counter starts at 0 before the loop and grows by exactly 1 at the top
\* of every iteration; when a tick ends, prev_data is the reading of that tick,
\* nothing changes it before the next tick's predictor reads it, so that the
\* predictor at tick t > 1 is given the reading produced at tick t - 1.
C8_PreviousIsLastTick ==
  /\ [](pc = "start" => time_step = 0)
  /\ [][time_step' = (IF pc = "acquire" THEN time_step + 1 ELSE time_step)]_vars
  /\ [][(pc = "acquire" /\ time_step >= 1) =>
          (prev_data = current_data /\ prev_data' = prev_data)]_vars
  /\ [][(pc \in {"log", "render", "predict"}) =>
          (prev_data' = prev_data /\ current_data' = current_data)]_vars
  /\ []((pc \in {"log", "render", "predict", "check", "halted"}) =>
          current_data.timestamp = time_step)
  /\ []((pc = "predict" /\ time_step > 1) =>
          /\ prev_data # Placeholder
          /\ prev_data.timestamp = time_step - 1
          /\ \E r_temp \in 0..RAND_MAX, r_vib \in 0..RAND_MAX :
               prev_data = read_sensors(time_step - 1, r_temp, r_vib))

C8_Witness ==
  /\ pc = "check"
  /\ time_step = 2
  /\ prev_data = read_sensors(1, RAND_MAX, 0)
  /\ Val(2, "trend") = { current_data.temperature - prev_data.temperature }

\* ---------------------------------------------------------------- C9
\* steps left before the loop must have halted: 5 per tick up to tick 21
Rank ==
  5 * (21 - time_step)
  + (CASE pc = "log" -> 4 [] pc = "render" -> 3 [] pc = "predict" -> 2
       [] pc = "check" -> 1 [] OTHER -> 0)

\* C9: the loop terminates (in the loop a step is always possible, and every
\* step lowers Rank, which is never negative), it halts at tick 20 or 21 and
\* nowhere else, and the halting reading is CRITICAL by its temperature while
\* its vibration is still within the limit.
C9_HaltsAtTick20Or21 ==
  /\ [](InLoop => ENABLED Next)
  /\ [](Rank >= 0)
  /\ [][InLoop => Rank' < Rank]_vars
  /\ [](pc = "halted" =>
          /\ time_step \in {20, 21}
          /\ current_data.temperature > CRITICAL_TEMP
          /\ current_data.vibration <= CRITICAL_VIBRATION)
  /\ []((pc = "check" /\ time_step = 21) => current_data.status = CRITICAL)
  /\ []((pc = "check" /\ time_step < 20) => current_data.status # CRITICAL)

C9_Witness ==
  /\ pc = "halted"
  /\ time_step = 21
  /\ prev_data.temperature = CRITICAL_TEMP
  /\ prev_data.status = WARNING

\* ---------------------------------------------------------------- C10
\* C10: from tick 2 on the temperature exceeds the previous tick's by 1 to 5
\* degrees, the status is never below the previous tick's, and the predictor's
\* stable message is never printed.
C10_TemperatureRises ==
  /\ (pc \in {"log", "render", "predict", "check", "halted"} /\ time_step > 1) =>
       /\ current_data.temperature - prev_data.temperature \in (1 * Scale)..(5 * Scale)
       /\ current_data.status >= prev_data.status
  /\ \A i \in 1..Len(console) : console[i].msg # "stable"

C10_Witness ==
  /\ pc = "check"
  /\ current_data.temperature - prev_data.temperature = 1 * Scale
  /\ Val(time_step, "trend") = { 1 * Scale }
  /\ prev_data.status = WARNING
  /\ current_data.status = WARNING
  /\ "alert" \in Msgs(time_step)

====
